---- MODULE Spec2Model ----
(***************************************************************************)
(* Model of AdaptiveRingPlugin/src/Scripts/IntelligenceService.py: one run *)
(* of the entry point main() in one of its three modes, with the text      *)
(* clean-up, the JSON decoding and encoding and the Python operations the  *)
(* handlers apply to the decoded values.                                   *)
(*                                                                         *)
(* A text is a sequence of tokens.  A token is either a single character   *)
(* (backquote, the letters of "json", white space, brackets, comma, a      *)
(* plain letter) or a lexeme: the text of one complete JSON scalar, string *)
(* or object, written as one token.  An absent (None) or empty argument    *)
(* is the empty text: the code only tests such arguments for truth.        *)
(***************************************************************************)
EXTENDS Integers, Sequences, FiniteSets, TLC

VARIABLES mode, api_key, app, mcp_servers, tools, prompt, interactions,
          pc, stdout, raised, calls, response, text, prev, passes

vars == <<mode, api_key, app, mcp_servers, tools, prompt, interactions,
          pc, stdout, raised, calls, response, text, prev, passes>>

args == <<mode, api_key, app, mcp_servers, tools, prompt, interactions>>

-----------------------------------------------------------------------------
(* Bounds of the model.                                                    *)

\* longest array of workflow entries the provider returns
MaxWorkflows == 3

\* longest array of interaction events on the command line
MaxEvents == 3

\* longest free text (over backquote, blank, letter) given to the clean-up
MaxLen == 7

-----------------------------------------------------------------------------
(* Characters and texts.                                                   *)

WS == {" ", "\n"}

\* the backquote character (the parser accepts no backquote inside a string)
Backquote == "BQ"

Fence == <<Backquote, Backquote, Backquote>>

FenceJson == Fence \o <<"j", "s", "o", "n">>

\* all sequences over S of length at most n
RECURSIVE SeqsUpTo(_, _)
SeqsUpTo(S, n) ==
    IF n = 0 THEN {<<>>}
    ELSE LET shorter == SeqsUpTo(S, n - 1)
         IN  shorter \cup {Append(s, c) : s \in {x \in shorter : Len(x) = n - 1}, c \in S}

StartsWith(t, p) == Len(t) >= Len(p) /\ SubSeq(t, 1, Len(p)) = p

EndsWith(t, p) == Len(t) >= Len(p) /\ SubSeq(t, Len(t) - Len(p) + 1, Len(t)) = p

\* str.strip(): drop leading and trailing white space
Strip(t) ==
    LET keep == {i \in 1..Len(t) : t[i] \notin WS}
    IN  IF keep = {} THEN <<>>
        ELSE SubSeq(t, CHOOSE i \in keep : \A j \in keep : i <= j,
                       CHOOSE i \in keep : \A j \in keep : i >= j)

\* the clean-up without its closing strip()
SanitizeNoFinalStrip(t) ==
    LET a == Strip(t)
        b == IF StartsWith(a, FenceJson) THEN SubSeq(a, 8, Len(a))
             ELSE IF StartsWith(a, Fence) THEN SubSeq(a, 4, Len(a))
             ELSE a
    IN  IF EndsWith(b, Fence) THEN SubSeq(b, 1, Len(b) - 3) ELSE b

\* the clean-up testing the bare fence before the ```json fence
SanitizeBareFenceFirst(t) ==
    LET a == Strip(t)
        b == IF StartsWith(a, Fence) THEN SubSeq(a, 4, Len(a))
             ELSE IF StartsWith(a, FenceJson) THEN SubSeq(a, 8, Len(a))
             ELSE a
        c == IF EndsWith(b, Fence) THEN SubSeq(b, 1, Len(b) - 3) ELSE b
    IN  Strip(c)

\* the clean-up of a provider text: strip, text[7:] after ```json or text[3:]
\* after ```, text[:-3] before a closing ```, strip
Sanitize(t) ==
    LET a == Strip(t)
        b == IF StartsWith(a, FenceJson) THEN SubSeq(a, 8, Len(a))
             ELSE IF StartsWith(a, Fence) THEN SubSeq(a, 4, Len(a))
             ELSE a
        c == IF EndsWith(b, Fence) THEN SubSeq(b, 1, Len(b) - 3) ELSE b
    IN  Strip(c)

-----------------------------------------------------------------------------
(* JSON values.  A lexeme decodes to an atom: a record of what the code    *)
(* can observe of the value.  An array decodes to a record holding the     *)
(* sequence of its elements' atoms.                                        *)

\* confKind is the type of the value under the key "confidence" ("absent",
\* "number" or "other") and conf that number in hundredths; toolsKind is the
\* type of the value under 'Tools'; pos and typ are "position" and "type"
Atom(id, kind, size, confKind, conf, toolsKind, pos, typ) ==
    [id |-> id, kind |-> kind, size |-> size, confKind |-> confKind,
     conf |-> conf, toolsKind |-> toolsKind, pos |-> pos, typ |-> typ]

Scalar(id, kind) == Atom(id, kind, 0, "absent", 0, "absent", 0, "")

Str(id, n) == Atom(id, "str", n, "absent", 0, "absent", 0, "")

Obj(id, n) == Atom(id, "obj", n, "absent", 0, "absent", 0, "")

\* a workflow entry {"workflow": .., "interaction_ids": .., "confidence": c}
Workflow(id, c) == Atom(id, "obj", 3, "number", c, "absent", 0, "")

\* an entry of a suggested or default action set
Action(id, pos, typ) == Atom(id, "obj", 4, "absent", 0, "absent", pos, typ)

\* a capability descriptor; toolsKind is the type of its 'Tools' value
Server(id, toolsKind) == Atom(id, "obj", 3, "absent", 0, toolsKind, 0, "")

\* the eight entries of get_universal_defaults, in the order of the list
DefaultActions ==
    << Action("{0 Keybind Copy}", 0, "Keybind"),
       Action("{1 Keybind Paste}", 1, "Keybind"),
       Action("{2 Keybind Save}", 2, "Keybind"),
       Action("{3 Keybind Undo}", 3, "Keybind"),
       Action("{4 Keybind Find}", 4, "Keybind"),
       Action("{5 Keybind Select All}", 5, "Keybind"),
       Action("{6 Keybind New Tab}", 6, "Keybind"),
       Action("{7 Keybind Close}", 7, "Keybind") >>

\* eight well-formed actions a provider may suggest, one per position
SuggestedActions ==
    << Action("{0 Keybind Bold}", 0, "Keybind"),
       Action("{1 Prompt Analyze Code}", 1, "Prompt"),
       Action("{2 Keybind Italic}", 2, "Keybind"),
       Action("{3 Python Word Count}", 3, "Python"),
       Action("{4 Keybind Redo}", 4, "Keybind"),
       Action("{5 Prompt Summarize}", 5, "Prompt"),
       Action("{6 Keybind Print}", 6, "Keybind"),
       Action("{7 Keybind Zoom}", 7, "Keybind") >>

\* objects that are not valid actions: a position outside 0..7, an unknown type
BadActions ==
    { Action("{9 Keybind Bold}", 9, "Keybind"),
      Action("{0 Macro Bold}", 0, "Macro") }

WorkflowAtoms ==
    { Workflow("{w confidence 0.9}", 90),
      Workflow("{w confidence 0.7}", 70),
      Workflow("{w confidence 0.85}", 85),
      Workflow("{w confidence 0.8}", 80),
      Obj("{w}", 2),
      Atom("{w confidence high}", "obj", 3, "other", 0, "absent", 0, "") }

\* the objects the handlers print with json.dumps
InvalidToolsJson == Obj("{tool none, error Invalid tools JSON}", 2)

ApiKeyMissing == Obj("{tool none, error API key missing}", 2)

ToolNone == Obj("{tool none}", 1)

\* {"tool": "none", "error": str(e)} for the exception e of a provider call
ProviderError == Obj("{tool none, error str(e)}", 2)

\* a tool choice in the shape the orchestration prompt asks for
ToolChoice == Obj("{tool open, arguments {}}", 2)

Number == Scalar("5", "num")

Null == Scalar("null", "null")

EventAtoms == { Obj("{event 1}", 4), Obj("{event 2}", 4) }

ToolAtoms == { Obj("{Name open, Description}", 2) }

ServerAtoms ==
    { Server("{server, Tools {..}}", "dict"),
      Server("{server}", "absent"),
      Server("{server, Tools text}", "str") }

OtherAtoms ==
    { Number, Null, Str("''", 0), Str("'a'", 1), Str("'ab'", 2),
      Str("'abcdefgh'", 8), Obj("{}", 0), Obj("{8 keys}", 8) }

Range(s) == {s[i] : i \in DOMAIN s}

Atoms ==
    Range(DefaultActions) \cup Range(SuggestedActions) \cup BadActions
      \cup WorkflowAtoms \cup EventAtoms \cup ToolAtoms \cup ServerAtoms
      \cup OtherAtoms
      \cup {InvalidToolsJson, ApiKeyMissing, ToolNone, ProviderError, ToolChoice}

Lexemes == {a.id : a \in Atoms}

AtomOf(lexeme) == CHOOSE a \in Atoms : a.id = lexeme

Array(items) == [kind |-> "arr", items |-> items]

\* json.loads: white space between tokens is skipped; a text is a JSON
\* document when it is one lexeme, or a bracketed, comma-separated list
\* of lexemes; anything else raises JSONDecodeError (ok = FALSE)
JsonLoads(t) ==
    LET toks == SelectSeq(t, LAMBDA c : c \notin WS)
        n == Len(toks)
        failed == [ok |-> FALSE, val |-> Null]
    IN  IF n = 1 /\ toks[1] \in Lexemes
          THEN [ok |-> TRUE, val |-> AtomOf(toks[1])]
        ELSE IF n >= 2 /\ toks[1] = "[" /\ toks[n] = "]"
          THEN LET inner == SubSeq(toks, 2, n - 1)
                   m == Len(inner)
               IN  IF m = 0 THEN [ok |-> TRUE, val |-> Array(<<>>)]
                   ELSE IF /\ m % 2 = 1
                           /\ \A i \in 1..m :
                                IF i % 2 = 1 THEN inner[i] \in Lexemes
                                ELSE inner[i] = ","
                     THEN [ok |-> TRUE,
                           val |-> Array([k \in 1..((m + 1) \div 2) |->
                                            AtomOf(inner[2 * k - 1])])]
                   ELSE failed
        ELSE failed

\* the items of an array text: lexemes separated by ", "
RECURSIVE JoinItems(_)
JoinItems(items) ==
    IF Len(items) = 0 THEN <<>>
    ELSE IF Len(items) = 1 THEN <<items[1].id>>
    ELSE <<items[1].id, ",", " ">> \o JoinItems(Tail(items))

\* json.dumps of a decoded value
JsonDumps(v) ==
    IF v.kind = "arr" THEN <<"[">> \o JoinItems(v.items) \o <<"]">>
    ELSE <<v.id>>

-----------------------------------------------------------------------------
(* The Python operations the handlers apply to decoded values.             *)

\* len(v) is defined (anything else raises TypeError)
HasLen(v) == v.kind \in {"arr", "str", "obj"}

PyLen(v) == IF v.kind = "arr" THEN Len(v.items) ELSE v.size

\* the truth value of v in "if v:"
Truthy(v) ==
    CASE v.kind = "null" -> FALSE
      [] v.kind = "num" -> TRUE
      [] OTHER -> PyLen(v) > 0

\* "for x in v" yields only dicts: the elements of a list as they are; the
\* keys of a dict and the characters of a str are strings
IteratesDicts(v) ==
    IF v.kind = "arr" THEN \A i \in 1..Len(v.items) : v.items[i].kind = "obj"
    ELSE PyLen(v) = 0

isinstance_list(v) == v.kind = "arr"

\* w.get("confidence", 0) of a dict w, in hundredths
Confidence(w) == IF w.confKind = "absent" THEN 0 ELSE w.conf

-----------------------------------------------------------------------------
(* The inputs of a run: the command line, the environment, the provider.   *)

Modes == {"suggest", "orchestrate", "analyze-workflows"}

\* os.environ.get("GEMINI_API_KEY"): None when unset, else the value
ApiKeys == {"None", "", "key"}

\* "not api_key" tested as "api_key is None"
ApiKeyIsNone(k) == k = "None"

\* "not api_key"
NoApiKey(k) == k \in {"None", ""}

McpDefault == <<"[", "]">>

Unparsable == <<"[", "'a'">>

ServerLists ==
    {JsonDumps(Array(<<a>>)) : a \in ServerAtoms \cup {Number}}

McpInputs ==
    {McpDefault, <<>>, Unparsable, <<"5">>, <<"null">>, <<"{}">>, <<"{8 keys}">>}
      \cup ServerLists

ToolAtom == CHOOSE a \in ToolAtoms : TRUE

ValidTools == JsonDumps(Array(<<ToolAtom, ToolAtom>>))

ToolsInputs ==
    {<<>>, Unparsable, ValidTools, <<"[", "]">>, <<"5">>, <<"{}">>, <<"'ab'">>,
     JsonDumps(Array(<<ToolAtom, Number>>))}

EventAtom == CHOOSE a \in EventAtoms : TRUE

EventLists ==
    {JsonDumps(Array(items)) : items \in SeqsUpTo({EventAtom, Number}, MaxEvents)}

ValidInteractions == JsonDumps(Array(<<EventAtom, EventAtom>>))

InteractionInputs ==
    {<<>>, Unparsable, <<"5">>, <<"null">>, <<"{}">>, <<"{8 keys}">>, <<"'a'">>,
     <<"'ab'">>} \cup EventLists

\* a provider text as it is, padded, or wrapped in a fence
Wrappings(body) ==
    { body,
      <<" ">> \o body \o <<"\n">>,
      FenceJson \o <<"\n">> \o body \o <<"\n">> \o Fence,
      Fence \o <<"\n">> \o body \o <<"\n">> \o Fence \o <<"\n">> }

Reverse(q) == [i \in 1..Len(q) |-> q[Len(q) + 1 - i]]

BadAction == CHOOSE a \in BadActions : a.pos = 9

ActionLists ==
    { SuggestedActions,
      Reverse(SuggestedActions),
      SubSeq(SuggestedActions, 1, 7),
      Append(SuggestedActions, SuggestedActions[1]),
      [SuggestedActions EXCEPT ![3] = SuggestedActions[2]],
      [SuggestedActions EXCEPT ![3] = BadAction],
      [SuggestedActions EXCEPT ![1] = CHOOSE a \in BadActions : a.typ = "Macro"],
      [SuggestedActions EXCEPT ![8] = Number],
      <<>> }

WorkflowLists == SeqsUpTo(WorkflowAtoms \cup {Number}, MaxWorkflows)

ResponseBodies ==
    {JsonDumps(Array(q)) : q \in ActionLists \cup WorkflowLists}
      \cup {<<a.id>> : a \in OtherAtoms \cup {ToolChoice, ToolNone}}
      \cup {<<"x", " ", "x">>, Unparsable}

\* what model.generate_content(..).text yields: a text, or an exception
ProviderOutcomes ==
    {[ok |-> TRUE, text |-> t] : t \in UNION {Wrappings(b) : b \in ResponseBodies}}
      \cup {[ok |-> FALSE, text |-> <<>>]}

\* texts given to the clean-up on its own
SanitizerTexts ==
    {p \o t : p \in {<<>>, FenceJson, SubSeq(FenceJson, 1, 5)},
              t \in SeqsUpTo({Backquote, " ", "x"}, MaxLen)}

-----------------------------------------------------------------------------
(* A run of main().                                                        *)

NotCalled == [ok |-> FALSE, text |-> <<>>]

\* the arguments a mode does not read are all absent or all given
Init ==
    /\ mode \in Modes
    /\ api_key \in ApiKeys
    /\ app \in {"", "Editor"}
    /\ \E given \in BOOLEAN :
         /\ mcp_servers \in (IF mode = "suggest" THEN McpInputs ELSE {McpDefault})
         /\ tools \in (IF mode = "orchestrate" THEN ToolsInputs
                       ELSE {IF given THEN ValidTools ELSE <<>>})
         /\ prompt \in (IF mode = "orchestrate" THEN {"", "open it"}
                        ELSE {IF given THEN "open it" ELSE ""})
         /\ interactions \in (IF mode = "analyze-workflows" THEN InteractionInputs
                              ELSE {IF given THEN ValidInteractions ELSE <<>>})
    /\ pc = "main"
    /\ stdout = <<>>
    /\ raised = ""
    /\ calls = 0
    /\ response = NotCalled
    /\ text = <<>>
    /\ prev = <<>>
    /\ passes = 0

\* print(t), then return from main()
PrintAndExit(t) ==
    /\ stdout' = Append(stdout, t)
    /\ pc' = "exit"
    /\ UNCHANGED raised

\* an exception no handler catches ends the run
Raise(e) ==
    /\ raised' = e
    /\ pc' = "exit"
    /\ UNCHANGED stdout

Goto(label) ==
    /\ pc' = label
    /\ UNCHANGED <<stdout, raised>>

get_universal_defaults(app_name) == Array(DefaultActions)

\* main() with no credential
MainNoKey ==
    /\ pc = "main"
    /\ NoApiKey(api_key)
    /\ CASE mode = "suggest" ->
              PrintAndExit(JsonDumps(get_universal_defaults(
                             IF app # "" THEN app ELSE "Default")))
         [] mode = "analyze-workflows" -> PrintAndExit(JsonDumps(Array(<<>>)))
         [] OTHER -> PrintAndExit(JsonDumps(ApiKeyMissing))
    /\ UNCHANGED <<args, calls, response, text, prev, passes>>

\* main() with a credential: the argument checks of the chosen mode
MainDispatch ==
    /\ pc = "main"
    /\ ~NoApiKey(api_key)
    /\ CASE mode = "suggest" ->
              IF app = "" THEN Goto("exit") ELSE Goto("suggest_actions")
         [] mode = "orchestrate" ->
              IF tools = <<>> \/ prompt = ""
                THEN PrintAndExit(JsonDumps(ToolNone))
                ELSE Goto("orchestrate")
         [] mode = "analyze-workflows" ->
              IF app = "" \/ interactions = <<>>
                THEN PrintAndExit(JsonDumps(Array(<<>>)))
                ELSE Goto("analyze_workflows")
    /\ UNCHANGED <<args, calls, response, text, prev, passes>>

\* the provider call of a handler: generate_content is invoked once and
\* yields outcome r
Generate(r) ==
    /\ calls' = calls + 1
    /\ response' = r
    /\ text' = IF r.ok THEN Sanitize(r.text) ELSE text

-----------------------------------------------------------------------------
(* suggest_actions                                                         *)

\* the capability descriptors: unparsable input is taken as []
McpServers(t) == IF JsonLoads(t).ok THEN JsonLoads(t).val ELSE Array(<<>>)

\* the exception the rendering of the descriptors raises, "" when none:
\* "for server in mcp_servers" needs an iterable, server.get a dict,
\* tools.items() a dict
SuggestPromptError(servers) ==
    IF ~Truthy(servers) THEN ""
    ELSE IF ~HasLen(servers) THEN "TypeError"
    ELSE IF ~IteratesDicts(servers) THEN "AttributeError"
    ELSE IF \E i \in 1..Len(servers.items) : servers.items[i].toolsKind = "str"
      THEN "AttributeError"
    ELSE ""

\* suggest_actions up to its try block: parse the descriptors, build the prompt
SuggestPrompt ==
    /\ pc = "suggest_actions"
    /\ LET e == SuggestPromptError(McpServers(mcp_servers))
       IN  IF e # "" THEN Raise(e) ELSE Goto("suggest_generate")
    /\ UNCHANGED <<args, calls, response, text, prev, passes>>

\* what the try block of suggest_actions prints for provider outcome r
SuggestOutput(r) ==
    LET parsed == JsonLoads(Sanitize(r.text))
        defaults == JsonDumps(get_universal_defaults(app))
    IN  IF ~r.ok \/ ~parsed.ok THEN defaults
        ELSE IF ~HasLen(parsed.val) THEN defaults
        ELSE IF PyLen(parsed.val) # 8 THEN defaults
        ELSE JsonDumps(parsed.val)

\* the try block of suggest_actions
SuggestGenerate ==
    /\ pc = "suggest_generate"
    /\ \E r \in ProviderOutcomes :
         /\ Generate(r)
         /\ PrintAndExit(SuggestOutput(r))
    /\ UNCHANGED <<args, prev, passes>>

-----------------------------------------------------------------------------
(* orchestrate                                                             *)

\* a tool catalog that fails to parse taken as the empty catalog
ToolsOrEmpty(t) ==
    IF JsonLoads(t).ok THEN JsonLoads(t) ELSE [ok |-> TRUE, val |-> Array(<<>>)]

\* json.loads(tools_json) under "except Exception"
ParseTools(t) == JsonLoads(t)

\* the exception the rendering of tools_desc raises, "" when none
ToolsDescError(catalog) ==
    IF ~HasLen(catalog) THEN "TypeError"
    ELSE IF ~IteratesDicts(catalog) THEN "AttributeError"
    ELSE ""

\* orchestrate up to its second try block
Orchestrate ==
    /\ pc = "orchestrate"
    /\ LET parsed == ParseTools(tools)
       IN  IF ~parsed.ok THEN PrintAndExit(JsonDumps(InvalidToolsJson))
           ELSE IF ToolsDescError(parsed.val) # ""
             THEN Raise(ToolsDescError(parsed.val))
           ELSE Goto("orchestrate_generate")
    /\ UNCHANGED <<args, calls, response, text, prev, passes>>

\* what the second try block of orchestrate prints for provider outcome r
OrchestrateOutput(r) ==
    IF ~r.ok THEN JsonDumps(ProviderError) ELSE Sanitize(r.text)

\* the second try block of orchestrate
OrchestrateGenerate ==
    /\ pc = "orchestrate_generate"
    /\ \E r \in ProviderOutcomes :
         /\ Generate(r)
         /\ PrintAndExit(OrchestrateOutput(r))
    /\ UNCHANGED <<args, prev, passes>>

-----------------------------------------------------------------------------
(* analyze_workflows                                                       *)

\* "len(interactions) < 2" written as "< 1"
NoInteractions(v) == PyLen(v) < 1

\* "len(interactions) < 2"
TooFewInteractions(v) == PyLen(v) < 2

\* analyze_workflows up to its try block: parse, count, project the events
AnalyzeParse ==
    /\ pc = "analyze_workflows"
    /\ LET parsed == JsonLoads(interactions)
       IN  IF ~parsed.ok THEN PrintAndExit(JsonDumps(Array(<<>>)))
           ELSE IF ~HasLen(parsed.val) THEN Raise("TypeError")
           ELSE IF TooFewInteractions(parsed.val)
             THEN PrintAndExit(JsonDumps(Array(<<>>)))
           ELSE IF ~IteratesDicts(parsed.val) THEN Raise("AttributeError")
           ELSE Goto("analyze_generate")
    /\ UNCHANGED <<args, calls, response, text, prev, passes>>

\* the threshold test with ">" for ">="
KeepWorkflowStrict(w) == Confidence(w) > 80

\* w.get("confidence", 0) >= 0.8, in hundredths
KeepWorkflow(w) == Confidence(w) >= 80

\* the filter raises: an element without .get, or a confidence that does
\* not compare with a float
FilterRaises(workflows) ==
    \E i \in 1..Len(workflows) :
        workflows[i].kind # "obj" \/ workflows[i].confKind = "other"

\* what the try block of analyze_workflows prints for provider outcome r
AnalyzeOutput(r) ==
    LET parsed == JsonLoads(Sanitize(r.text))
        empty == JsonDumps(Array(<<>>))
    IN  IF ~r.ok \/ ~parsed.ok THEN empty
        ELSE IF ~isinstance_list(parsed.val) THEN empty
        ELSE IF FilterRaises(parsed.val.items) THEN empty
        ELSE JsonDumps(Array(SelectSeq(parsed.val.items, KeepWorkflow)))

\* the try block of analyze_workflows
AnalyzeGenerate ==
    /\ pc = "analyze_generate"
    /\ \E r \in ProviderOutcomes :
         /\ Generate(r)
         /\ PrintAndExit(AnalyzeOutput(r))
    /\ UNCHANGED <<args, prev, passes>>

-----------------------------------------------------------------------------

Next ==
    \/ MainNoKey
    \/ MainDispatch
    \/ SuggestPrompt
    \/ SuggestGenerate
    \/ Orchestrate
    \/ OrchestrateGenerate
    \/ AnalyzeParse
    \/ AnalyzeGenerate

Spec == Init /\ [][Next]_vars

-----------------------------------------------------------------------------
(* The clean-up on its own: applied to a text, then to its own result.     *)

SanitizerInit ==
    /\ response \in {[ok |-> TRUE, text |-> t] : t \in SanitizerTexts}
    /\ text = response.text
    /\ prev = <<>>
    /\ passes = 0
    /\ pc = "sanitize"
    /\ mode = "suggest"
    /\ api_key = "key"
    /\ app = "Editor"
    /\ mcp_servers = McpDefault
    /\ tools = <<>>
    /\ prompt = ""
    /\ interactions = <<>>
    /\ stdout = <<>>
    /\ raised = ""
    /\ calls = 0

SanitizePass ==
    /\ pc = "sanitize"
    /\ passes < 2
    /\ prev' = text
    /\ text' = Sanitize(text)
    /\ passes' = passes + 1
    /\ UNCHANGED <<args, pc, stdout, raised, calls, response>>

SanitizerNext == SanitizePass

SanitizerSpec == SanitizerInit /\ [][SanitizerNext]_vars

-----------------------------------------------------------------------------
(* Properties.                                                             *)

EmptyArrayText == <<"[", "]">>

DefaultsText == JsonDumps(Array(DefaultActions))

\* the handler of the mode was entered: main() passed the credential and
\* argument checks
SuggestCalled == mode = "suggest" /\ ~(api_key \in {"None", ""}) /\ app # ""

RouteCalled ==
    /\ mode = "orchestrate"
    /\ ~(api_key \in {"None", ""})
    /\ tools # <<>>
    /\ prompt # ""

AnalyzeCalled ==
    /\ mode = "analyze-workflows"
    /\ ~(api_key \in {"None", ""})
    /\ app # ""
    /\ interactions # <<>>

\* q is a sequence of exactly 8 valid Actions, positions 0..7 each once
ValidActionSet(q) ==
    /\ Len(q) = 8
    /\ \A i \in 1..Len(q) :
         /\ q[i].kind = "obj"
         /\ q[i].typ \in {"Keybind", "Prompt", "Python"}
         /\ q[i].pos \in 0..7
    /\ \A i, j \in 1..Len(q) : q[i].pos = q[j].pos => i = j

\* sub is a contiguous part of t
IsInfix(sub, t) ==
    \E i \in 0..(Len(t) - Len(sub)) : SubSeq(t, i + 1, i + Len(sub)) = sub

\* C1: every run, in every mode and for every input and provider outcome,
\* ends without an unhandled exception having written exactly one
\* well-formed JSON value to standard output.
C1_EveryRunWritesOneJsonValue ==
    pc = "exit" =>
        /\ raised = ""
        /\ Len(stdout) = 1
        /\ JsonLoads(stdout[1]).ok

\* C2: suggest never raises to its caller, whatever the capability
\* descriptors parse to and whatever the provider does; a provider failure
\* ends with the default action set.
C2_SuggestNeverRaises ==
    (SuggestCalled /\ pc = "exit") =>
        /\ raised = ""
        /\ Len(stdout) = 1
        /\ (~response.ok => stdout[1] = DefaultsText)

\* C3: suggest returns the default action set unless the sanitized provider
\* response parses to an array of exactly 8 valid Actions; hence what it
\* returns is always a sequence of exactly 8 valid Actions.
C3_SuggestReturnsEightValidActions ==
    (SuggestCalled /\ pc = "exit" /\ calls = 1) =>
        /\ Len(stdout) = 1
        /\ LET got == JsonLoads(text)
           IN  (~response.ok \/ ~got.ok \/ got.val.kind # "arr"
                  \/ ~ValidActionSet(got.val.items))
                 => stdout[1] = DefaultsText
        /\ LET out == JsonLoads(stdout[1])
           IN  out.ok /\ out.val.kind = "arr" /\ ValidActionSet(out.val.items)

\* C4: when the provider returns, fenced or not, the JSON text of an array
\* of exactly 8 well-formed actions, suggest prints exactly those actions,
\* in the provider's order and with the provider's position values.
C4_ValidSuggestionsReturnedUnchanged ==
    \A q \in ActionLists :
        (/\ SuggestCalled
         /\ pc = "exit"
         /\ calls = 1
         /\ response.ok
         /\ ValidActionSet(q)
         /\ response.text \in Wrappings(JsonDumps(Array(q))))
        => /\ Len(stdout) = 1
           /\ JsonLoads(stdout[1]).ok
           /\ JsonLoads(stdout[1]).val = Array(q)

\* a fenced array of 8 valid actions whose positions run 7 down to 0 was
\* returned and printed as it came
C4_Witness ==
    /\ SuggestCalled
    /\ pc = "exit"
    /\ response.ok
    /\ response.text = FenceJson \o <<"\n">>
                         \o JsonDumps(Array(Reverse(SuggestedActions)))
                         \o <<"\n">> \o Fence
    /\ stdout = <<JsonDumps(Array(Reverse(SuggestedActions)))>>

\* C5: when the interaction events fail to parse, or parse to a value of
\* fewer than 2 elements, analyze yields the empty array and the provider
\* is never invoked; the provider is invoked only after the input parsed
\* to at least 2 elements.
C5_FewEventsNoProviderCall ==
    LET parsed == JsonLoads(interactions)
        few == ~parsed.ok \/ (HasLen(parsed.val) /\ PyLen(parsed.val) < 2)
    IN  mode = "analyze-workflows" =>
          /\ few => (calls = 0 /\ raised = "")
          /\ (few /\ pc = "exit") => stdout = <<EmptyArrayText>>
          /\ calls > 0 =>
               (parsed.ok /\ HasLen(parsed.val) /\ PyLen(parsed.val) >= 2)

\* analyze ended on a single event without calling the provider
C5_Witness ==
    /\ AnalyzeCalled
    /\ pc = "exit"
    /\ interactions = JsonDumps(Array(<<EventAtom>>))
    /\ stdout = <<EmptyArrayText>>
    /\ calls = 0

C7_InvalidToolsNoProviderCall ==
    (RouteCalled /\ ~JsonLoads(tools).ok) =>
        /\ calls = 0
        /\ raised = ""
        /\ pc \in {"main", "orchestrate", "exit"}
        /\ pc = "exit" => stdout = <<JsonDumps(InvalidToolsJson)>>

\* route ended on an unparsable catalog
C7_Witness ==
    /\ RouteCalled
    /\ tools = Unparsable
    /\ pc = "exit"
    /\ stdout = <<JsonDumps(InvalidToolsJson)>>
    /\ calls = 0

\* C8: with the credential unset or empty no mode calls the provider and
\* each mode prints its fallback whatever its other arguments are: the
\* default action set, the empty array, or the "API key missing" object.
C8_NoCredentialFallback ==
    api_key \in {"None", ""} =>
        /\ calls = 0
        /\ raised = ""
        /\ pc \in {"main", "exit"}
        /\ pc = "exit" =>
             stdout = << CASE mode = "suggest" -> DefaultsText
                           [] mode = "analyze-workflows" -> EmptyArrayText
                           [] mode = "orchestrate" -> JsonDumps(ApiKeyMissing) >>

\* orchestrate ended on an empty credential with every argument given
C8_Witness ==
    /\ api_key = ""
    /\ mode = "orchestrate"
    /\ tools = ValidTools
    /\ prompt # ""
    /\ pc = "exit"
    /\ stdout = <<JsonDumps(ApiKeyMissing)>>

\* C9 as stated: the clean-up is idempotent on every text.
C9_SanitizeIdempotent ==
    (pc = "sanitize" /\ passes = 2) => text = prev

\* C9 amended: sanitize(sanitize(t)) = sanitize(t) for every text t whose
\* sanitized form neither starts nor ends with a fence marker; a text with
\* no backquote and no surrounding white space is returned unchanged; and
\* the result is a contiguous part of the input.
C9_SanitizeIdempotentOnceFencesAreGone ==
    pc = "sanitize" =>
        /\ (passes = 2 /\ ~StartsWith(prev, Fence) /\ ~EndsWith(prev, Fence))
             => text = prev
        /\ (/\ passes = 1
            /\ \A i \in 1..Len(prev) : prev[i] # Backquote
            /\ prev # <<>> => (prev[1] \notin WS /\ prev[Len(prev)] \notin WS))
             => text = prev
        /\ passes >= 1 => IsInfix(text, prev)
        /\ passes >= 1 => IsInfix(text, response.text)

\* a fenced, padded text was cleaned to its content and cleaned again
C9_Witness ==
    /\ pc = "sanitize"
    /\ passes = 2
    /\ response.text = FenceJson \o <<" ", "x", " ", "x">> \o Fence
    /\ prev = <<"x", " ", "x">>
    /\ text = <<"x", " ", "x">>

\* C10: analyze never raises to its caller, whatever the interaction
\* events parse to and whatever the provider does; a failure or too little
\* input yields the empty array.
C10_AnalyzeNeverRaises ==
    (AnalyzeCalled /\ pc = "exit") =>
        /\ raised = ""
        /\ Len(stdout) = 1
        /\ (~response.ok => stdout[1] = EmptyArrayText)

====
